---- MODULE Spec2Model ----
(***************************************************************************)
(* A model of src/src/App.jsx: the S3 browser's session, navigator,        *)
(* selection, recursive key resolver, bulk delete and upload tracker.      *)
(*                                                                         *)
(* Strings the code inspects character by character (object keys, the      *)
(* prefix, the search query) are sequences of one-character strings, so    *)
(* that endsWith, split, join, includes and the store's prefix match are    *)
(* computed and not assumed.  Names (buckets, credentials, message kinds)  *)
(* that the code only compares for equality are TLA+ strings.              *)
(*                                                                         *)
(* One user event (a click, a keystroke) is one action: the handler, the   *)
(* render it causes and the effects of that render (the useEffect hooks at *)
(* lines 433-439) run before the next event is handled.  An await is a     *)
(* suspension point: the request is a message in flight, and the code      *)
(* after the await is the action that consumes the response.               *)
(***************************************************************************)
EXTENDS Integers, Sequences, FiniteSets, Bags, TLC

\* ------------------------------------------------------------------ bounds

\* listing requests of fetchObjects that may be in flight at the same time
MaxInFlight == 2
\* the largest number of keys the store accepts in one DeleteObjects request
\* (1000 for S3 and MinIO; scaled down to the size of the key universe)
BatchLimit == 2
\* handleConnect invocations that may be awaiting their validation call
MaxConnecting == 1
\* the largest selection a delete is started with in SpecDelete
MaxSelected == 2
\* handleFileUpload invocations that may be running at the same time
MaxUploads == 2
\* the largest number of files one upload action is given
MaxFiles == 2
\* the largest file size, in parts of the transfer
MaxBytes == 2
\* the last value of the clock: Date.now() is in 0..MaxClock
MaxClock == 1

\* ------------------------------------------------------------ value spaces

NULL == "null"
NoToken == -1

\* the keys a bucket may hold, in the store's listing order (UTF-8 binary
\* order: "/" < "1" < "2" < "a" < "b" < "s")
KeyOrder ==
    << <<"1">>,
       <<"2">>,
       <<"a", "/">>,
       <<"a", "/", "1">>,
       <<"a", "/", "2">>,
       <<"a", "/", "s", "/", "1">>,
       <<"b">> >>

Keys == {KeyOrder[i] : i \in 1..Len(KeyOrder)}

\* the store's buckets, in ListBuckets order
BucketNames == <<"b1", "b2">>

Buckets == {BucketNames[i] : i \in 1..Len(BucketNames)}

\* what the user may type into the search box
Queries == {<<>>, <<"A">>}

\* the connection details (endpoint, access key, secret key) the user may enter
Creds == {"c1"}

\* ------------------------------------------------------- string operations

ToSet(s) == {s[i] : i \in 1..Len(s)}

\* String.prototype.endsWith with a one-character argument
EndsWith(s, c) == Len(s) > 0 /\ s[Len(s)] = c

\* the store's test that key k lies under prefix p
StartsWith(k, p) == Len(p) <= Len(k) /\ SubSeq(k, 1, Len(p)) = p

\* String.prototype.toLowerCase on one character
LowerChar(c) ==
    CASE c = "A" -> "a"
      [] c = "B" -> "b"
      [] c = "S" -> "s"
      [] OTHER -> c

toLowerCase_Identity(s) == s

toLowerCase(s) == [i \in 1..Len(s) |-> LowerChar(s[i])]

\* String.prototype.includes
includes(s, q) ==
    \E i \in 0..(Len(s) - Len(q)) : SubSeq(s, i + 1, i + Len(q)) = q

\* Array.prototype.includes on an array of keys
Contains(arr, k) == \E i \in 1..Len(arr) : arr[i] = k

\* [...new Set(arr)]: the first occurrence of every element, in order
RECURSIVE Dedupe(_)
Dedupe(arr) ==
    IF arr = <<>> THEN <<>>
    ELSE LET front == Dedupe(SubSeq(arr, 1, Len(arr) - 1))
             last == arr[Len(arr)]
         IN IF Contains(front, last) THEN front ELSE Append(front, last)

\* prefix.split('/').filter(Boolean): the non-empty segments between slashes
RECURSIVE SplitSegments(_, _)
SplitSegments(s, cur) ==
    IF s = <<>> THEN (IF cur = <<>> THEN <<>> ELSE <<cur>>)
    ELSE IF Head(s) = "/"
         THEN (IF cur = <<>> THEN <<>> ELSE <<cur>>) \o SplitSegments(Tail(s), <<>>)
         ELSE SplitSegments(Tail(s), Append(cur, Head(s)))

\* segs.join('/')
RECURSIVE JoinSlash(_)
JoinSlash(segs) ==
    IF segs = <<>> THEN <<>>
    ELSE IF Len(segs) = 1 THEN segs[1]
         ELSE segs[1] \o <<"/">> \o JoinSlash(Tail(segs))

\* ------------------------------------------------------------------ state

VARIABLES
    s3Client,           \* useState(null), line 253: the live client handle
    buckets,            \* line 254
    selectedBucket,     \* line 255
    objects,            \* line 256: the in-memory listing
    prefix,             \* line 257
    isLoadingBuckets,   \* line 258
    isLoadingObjects,   \* line 259
    selectedItems,      \* line 261: the SelectionSet, an array of keys
    isDeleteModalOpen,  \* line 262
    searchQuery,        \* line 263
    savedConnections,   \* line 264: App's copy of the saved connections
    alertData,          \* line 34: the notification on display
    localStorage,       \* window.localStorage['minio-connections']
    store,              \* the object store: bucket -> set of keys
    connReqs,           \* handleConnect invocations awaiting ListBuckets
    bucketReqs,         \* fetchBuckets invocations awaiting ListBuckets
    listReqs,           \* fetchObjects invocations awaiting ListObjectsV2
    del,                \* the handleDeleteSelected invocation and its locals
    listedContext,      \* history: the request whose response `objects` holds
    uploadingFiles,     \* line 260: the tracked upload tasks
    uploads,            \* handleFileUpload invocations awaiting a transfer
    now,                \* the value of Date.now()
    managerConnections  \* line 104: the ConnectionManager's copy of the saved
                        \* connections, read from localStorage when it mounts
                        \* (<<>> while it is not mounted)

appVars == <<s3Client, buckets, selectedBucket, objects, prefix, isLoadingBuckets,
             isLoadingObjects, selectedItems, isDeleteModalOpen, searchQuery,
             savedConnections, alertData>>

envVars == <<localStorage, store, connReqs, bucketReqs, listReqs, del, listedContext>>

upVars == <<uploadingFiles, uploads, now>>

vars == <<appVars, envVars, upVars, managerConnections>>

\* ------------------------------------------------------------ notifications

NoAlert == [type |-> "none", msg |-> "none", n |-> 0, s |-> NULL]

\* showAlert(message, type): the message replaces the one on display
Alert(type, msg, n, s) == [type |-> type, msg |-> msg, n |-> n, s |-> s]

\* ------------------------------------------------------------- the store

\* the keys of S that lie under prefix p, in listing order
KeysUnder(S, p) == SelectSeq(KeyOrder, LAMBDA k : k \in S /\ StartsWith(k, p))

\* the part of key k after prefix p
Rest(k, p) == SubSeq(k, Len(p) + 1, Len(k))

HasDelimiter(r) == \E i \in 1..Len(r) : r[i] = "/"

\* p plus the part of k up to and including the first delimiter after p
CommonPrefixOf(k, p) ==
    LET r == Rest(k, p)
        i == CHOOSE j \in 1..Len(r) : r[j] = "/" /\ \A h \in 1..(j - 1) : r[h] # "/"
    IN p \o SubSeq(r, 1, i)

\* ListObjectsV2 {Bucket, Prefix, Delimiter: '/'}: the keys directly under p
\* as Contents, the others grouped by their next segment as CommonPrefixes
ListDelimited(S, p) ==
    LET under == KeysUnder(S, p)
        direct == SelectSeq(under, LAMBDA k : ~HasDelimiter(Rest(k, p)))
        deeper == SelectSeq(under, LAMBDA k : HasDelimiter(Rest(k, p)))
    IN [Contents |-> direct,
        CommonPrefixes |-> Dedupe([i \in 1..Len(deeper) |-> CommonPrefixOf(deeper[i], p)])]

\* ---------------------------------------------------------- fetchObjects

ListingOf_AllAsFiles(resp, currentPrefix) ==
    LET all == resp.CommonPrefixes
                   \o SelectSeq(resp.Contents, LAMBDA k : k # currentPrefix)
    IN [i \in 1..Len(all) |-> [Key |-> all[i], isFolder |-> FALSE]]

ListingOf_FilesFirst(resp, currentPrefix) ==
    LET kept == SelectSeq(resp.Contents, LAMBDA k : k # currentPrefix)
    IN [i \in 1..Len(kept) |-> [Key |-> kept[i], isFolder |-> FALSE]]
       \o [i \in 1..Len(resp.CommonPrefixes) |->
              [Key |-> resp.CommonPrefixes[i], isFolder |-> TRUE]]

ListingOf_KeepsPrefix(resp, currentPrefix) ==
    [i \in 1..Len(resp.CommonPrefixes) |->
        [Key |-> resp.CommonPrefixes[i], isFolder |-> TRUE]]
    \o [i \in 1..Len(resp.Contents) |-> [Key |-> resp.Contents[i], isFolder |-> FALSE]]

\* lines 328-330: folders first, then the files other than the prefix itself
ListingOf(resp, currentPrefix) ==
    LET folders == [i \in 1..Len(resp.CommonPrefixes) |->
                        [Key |-> resp.CommonPrefixes[i], isFolder |-> TRUE]]
        kept == SelectSeq(resp.Contents, LAMBDA k : k # currentPrefix)
        files == [i \in 1..Len(kept) |-> [Key |-> kept[i], isFolder |-> FALSE]]
    IN folders \o files

ObjectKeys(objs) == [i \in 1..Len(objs) |-> objs[i].Key]

\* lines 441-444
filteredObjects ==
    IF searchQuery = <<>> THEN objects
    ELSE SelectSeq(objects,
                   LAMBDA obj : includes(toLowerCase(obj.Key), toLowerCase(searchQuery)))

\* lines 320-324: fetchObjects up to its await.  client is the s3Client the
\* callback closed over.
FetchObjects(client, bucket, currentPrefix) ==
    IF client = NULL \/ bucket = NULL
    THEN UNCHANGED <<isLoadingObjects, selectedItems, searchQuery, listReqs>>
    ELSE /\ BagCardinality(listReqs) < MaxInFlight
         /\ isLoadingObjects' = TRUE
         /\ selectedItems' = <<>>
         /\ searchQuery' = <<>>
         /\ listReqs' = listReqs (+) SetToBag({[client |-> client, bucket |-> bucket,
                                                prefix |-> currentPrefix]})

\* lines 437-439: the effect runs after a render in which the bucket, the
\* prefix or the client changed
ObjectsEffect ==
    IF <<selectedBucket', prefix', s3Client'>> # <<selectedBucket, prefix, s3Client>>
       /\ s3Client' # NULL
    THEN FetchObjects(s3Client', selectedBucket', prefix')
    ELSE UNCHANGED <<isLoadingObjects, selectedItems, searchQuery, listReqs>>

\* lines 326-330 and 334: the response arrives
FetchObjectsOk(r) ==
    /\ BagIn(r, listReqs)
    /\ listReqs' = listReqs (-) SetToBag({r})
    /\ objects' = ListingOf(ListDelimited(store[r.bucket], r.prefix), r.prefix)
    /\ listedContext' = [bucket |-> r.bucket, prefix |-> r.prefix]
    /\ isLoadingObjects' = FALSE
    /\ UNCHANGED <<s3Client, buckets, selectedBucket, prefix, isLoadingBuckets,
                   selectedItems, isDeleteModalOpen, searchQuery, savedConnections,
                   alertData, localStorage, store, connReqs, bucketReqs, del>>
    /\ UNCHANGED upVars
    /\ UNCHANGED managerConnections

\* lines 331-334: the request fails
FetchObjectsFail(r) ==
    /\ BagIn(r, listReqs)
    /\ listReqs' = listReqs (-) SetToBag({r})
    /\ alertData' = Alert("error", "Could not list objects", 0, r.bucket)
    /\ isLoadingObjects' = FALSE
    /\ UNCHANGED <<s3Client, buckets, selectedBucket, objects, prefix, isLoadingBuckets,
                   selectedItems, isDeleteModalOpen, searchQuery, savedConnections,
                   localStorage, store, connReqs, bucketReqs, del, listedContext>>
    /\ UNCHANGED upVars
    /\ UNCHANGED managerConnections

\* ------------------------------------------------------- session, buckets

NoContext == [bucket |-> NULL, prefix |-> <<>>]

\* lines 278-286: the saved list after saving saveConfig, given the list the
\* callback closed over and the value id of Date.now()
SaveConnection(saved, saveConfig, id) ==
    IF \E i \in 1..Len(saved) : saved[i].name = saveConfig.name
    THEN LET existingIndex ==
                 CHOOSE i \in 1..Len(saved) :
                     saved[i].name = saveConfig.name
                     /\ \A j \in 1..(i - 1) : saved[j].name # saveConfig.name
         IN [saved EXCEPT ![existingIndex] =
                 [id |-> saved[existingIndex].id, name |-> saveConfig.name,
                  details |-> saveConfig.details]]
    ELSE Append(saved, [id |-> id, name |-> saveConfig.name,
                        details |-> saveConfig.details])

NoSave == [name |-> NULL, details |-> NULL]

\* lines 268-276: handleConnect up to its await.  The ConnectionManager is on
\* screen only while there is no client (line 446).
HandleConnect(details, saveConfig) ==
    /\ s3Client = NULL
    /\ BagCardinality(connReqs) < MaxConnecting
    /\ connReqs' = connReqs (+) SetToBag({[details |-> details, saveConfig |-> saveConfig,
                              saved |-> savedConnections]})
    /\ UNCHANGED <<appVars, localStorage, store, bucketReqs, listReqs, del, listedContext>>
    /\ UNCHANGED upVars
    /\ UNCHANGED managerConnections

\* lines 307-311: fetchBuckets up to its await, run by the effect of lines 433-435
FetchBuckets(client) ==
    /\ BagCardinality(bucketReqs) < MaxInFlight
    /\ isLoadingBuckets' = TRUE
    /\ bucketReqs' = bucketReqs (+) SetToBag({[client |-> client]})

\* lines 278-290: the validation call succeeded.  setS3Client stores a new
\* client object, so both effects run.
ConnectOk(r, id) ==
    /\ BagIn(r, connReqs)
    /\ connReqs' = connReqs (-) SetToBag({r})
    /\ IF r.saveConfig # NoSave
       THEN /\ savedConnections' = SaveConnection(r.saved, r.saveConfig, id)
            /\ localStorage' = savedConnections'
            /\ alertData' = Alert("success", "Connection saved", 0, r.saveConfig.name)
       ELSE UNCHANGED <<savedConnections, localStorage, alertData>>
    /\ s3Client' = r.details
    /\ FetchBuckets(r.details)
    /\ FetchObjects(r.details, selectedBucket, prefix)
    /\ UNCHANGED <<buckets, selectedBucket, objects, prefix, isDeleteModalOpen,
                   store, del, listedContext>>
    /\ UNCHANGED upVars
    /\ managerConnections' = <<>>      \* the ConnectionManager unmounts (line 446)

ConnectFail_Retries(r) ==
    /\ BagIn(r, connReqs)
    /\ connReqs' = connReqs
    /\ alertData' = Alert("error", "Connection failed", 0, NULL)
    /\ UNCHANGED <<s3Client, buckets, selectedBucket, objects, prefix, isLoadingBuckets,
                   isLoadingObjects, selectedItems, isDeleteModalOpen, searchQuery,
                   savedConnections, localStorage, store, bucketReqs, listReqs, del,
                   listedContext>>
    /\ UNCHANGED upVars
    /\ UNCHANGED managerConnections

\* lines 291-293
ConnectFail(r) ==
    /\ BagIn(r, connReqs)
    /\ connReqs' = connReqs (-) SetToBag({r})
    /\ alertData' = Alert("error", "Connection failed", 0, NULL)
    /\ UNCHANGED <<s3Client, buckets, selectedBucket, objects, prefix, isLoadingBuckets,
                   isLoadingObjects, selectedItems, isDeleteModalOpen, searchQuery,
                   savedConnections, localStorage, store, bucketReqs, listReqs, del,
                   listedContext>>
    /\ UNCHANGED upVars
    /\ UNCHANGED managerConnections

handleDisconnect_KeepsListing ==
    /\ s3Client # NULL
    /\ ~isDeleteModalOpen
    /\ s3Client' = NULL
    /\ buckets' = <<>>
    /\ selectedBucket' = NULL
    /\ prefix' = <<>>
    /\ selectedItems' = <<>>
    /\ searchQuery' = <<>>
    /\ alertData' = Alert("info", "Disconnected", 0, NULL)
    /\ UNCHANGED <<objects, listedContext, isLoadingBuckets, isLoadingObjects,
                   isDeleteModalOpen, savedConnections, localStorage, store, connReqs,
                   bucketReqs, listReqs, del>>
    /\ UNCHANGED upVars
    /\ managerConnections' = localStorage

\* lines 296-305.  The effects run and do nothing: the client is null.
handleDisconnect ==
    /\ s3Client # NULL
    /\ ~isDeleteModalOpen      \* the modal covers the Disconnect button
    /\ s3Client' = NULL
    /\ buckets' = <<>>
    /\ selectedBucket' = NULL
    /\ objects' = <<>>
    /\ prefix' = <<>>
    /\ selectedItems' = <<>>
    /\ searchQuery' = <<>>
    /\ alertData' = Alert("info", "Disconnected", 0, NULL)
    /\ listedContext' = NoContext
    /\ UNCHANGED <<isLoadingBuckets, isLoadingObjects, isDeleteModalOpen, savedConnections,
                   localStorage, store, connReqs, bucketReqs, listReqs, del>>
    /\ UNCHANGED upVars
    /\ managerConnections' = localStorage      \* the ConnectionManager mounts (lines 10-13)

\* lines 311-312 and 316
FetchBucketsOk(r) ==
    /\ BagIn(r, bucketReqs)
    /\ bucketReqs' = bucketReqs (-) SetToBag({r})
    /\ buckets' = BucketNames
    /\ isLoadingBuckets' = FALSE
    /\ UNCHANGED <<s3Client, selectedBucket, objects, prefix, isLoadingObjects,
                   selectedItems, isDeleteModalOpen, searchQuery, savedConnections,
                   alertData, localStorage, store, connReqs, listReqs, del, listedContext>>
    /\ UNCHANGED upVars
    /\ UNCHANGED managerConnections

\* lines 313-316
FetchBucketsFail(r) ==
    /\ BagIn(r, bucketReqs)
    /\ bucketReqs' = bucketReqs (-) SetToBag({r})
    /\ alertData' = Alert("error", "Could not fetch buckets", 0, NULL)
    /\ isLoadingBuckets' = FALSE
    /\ UNCHANGED <<s3Client, buckets, selectedBucket, objects, prefix, isLoadingObjects,
                   selectedItems, isDeleteModalOpen, searchQuery, savedConnections,
                   localStorage, store, connReqs, listReqs, del, listedContext>>
    /\ UNCHANGED upVars
    /\ UNCHANGED managerConnections

\* line 38 (the timeout) and line 40 (hideAlert)
DismissAlert ==
    /\ alertData # NoAlert
    /\ alertData' = NoAlert
    /\ UNCHANGED <<s3Client, buckets, selectedBucket, objects, prefix, isLoadingBuckets,
                   isLoadingObjects, selectedItems, isDeleteModalOpen, searchQuery,
                   savedConnections, envVars>>
    /\ UNCHANGED upVars
    /\ UNCHANGED managerConnections

\* line 139: the trash button of a saved connection, on the ConnectionManager
\* (rendered while there is no client, line 446).  setSavedConnections is the
\* ConnectionManager's own useLocalStorage setter: it writes its copy and
\* localStorage (lines 23-24), not the copy of App.
handleDeleteConnection(id) ==
    /\ s3Client = NULL
    /\ \E i \in 1..Len(managerConnections) : managerConnections[i].id = id
    /\ managerConnections' = SelectSeq(managerConnections, LAMBDA c : c.id # id)
    /\ localStorage' = managerConnections'
    /\ alertData' = Alert("info", "Connection deleted", 0, NULL)
    /\ UNCHANGED <<s3Client, buckets, selectedBucket, objects, prefix, isLoadingBuckets,
                   isLoadingObjects, selectedItems, isDeleteModalOpen, searchQuery,
                   savedConnections, store, connReqs, bucketReqs, listReqs, del,
                   listedContext>>
    /\ UNCHANGED upVars

\* ---------------------------------------------------- navigation, selection

\* The page of lines 452-571 is on screen while there is a client; the modal
\* of line 572 covers it (fixed inset-0) while it is open.
PageUsable == s3Client # NULL /\ ~isDeleteModalOpen

\* the table of lines 526-567 is rendered (lines 521-525)
TableShown == PageUsable /\ selectedBucket # NULL /\ ~isLoadingObjects

\* a navigation handler sets the bucket and the prefix; the render that
\* follows runs the effect of lines 437-439
Navigate(bucket, newPrefix) ==
    /\ selectedBucket' = bucket
    /\ prefix' = newPrefix
    /\ UNCHANGED s3Client
    /\ ObjectsEffect
    /\ UNCHANGED <<buckets, objects, isLoadingBuckets, isDeleteModalOpen,
                   savedConnections, alertData, localStorage, store, connReqs,
                   bucketReqs, del, listedContext>>
    /\ UNCHANGED upVars
    /\ UNCHANGED managerConnections

\* line 479: a bucket of the side panel (rendered unless loading, line 473)
SelectBucket(i) ==
    /\ PageUsable
    /\ ~isLoadingBuckets
    /\ i \in 1..Len(buckets)
    /\ Navigate(buckets[i], <<>>)

\* line 550: a click on a row's name, which acts on folders only
EnterFolder(i) ==
    /\ TableShown
    /\ i \in 1..Len(filteredObjects)
    /\ filteredObjects[i].isFolder
    /\ Navigate(selectedBucket, filteredObjects[i].Key)

\* line 450, without the root label and the bucket name
breadcrumbSegments == SplitSegments(prefix, <<>>)

BreadcrumbPrefix_NoTrailingSlash(i) == JoinSlash(SubSeq(breadcrumbSegments, 1, i - 1))

\* line 493: breadcrumbs.slice(2, i + 1).join('/') + '/'
BreadcrumbPrefix(i) == JoinSlash(SubSeq(breadcrumbSegments, 1, i - 1)) \o <<"/">>

\* line 493: crumb i of ['Buckets', selectedBucket, ...segments]
ClickBreadcrumb(i) ==
    /\ PageUsable
    /\ i \in 0..(Len(breadcrumbSegments) + 1)
    /\ i = 1 => selectedBucket # NULL
    /\ IF i = 0 THEN Navigate(NULL, <<>>)
       ELSE IF i = 1 THEN Navigate(selectedBucket, <<>>)
       ELSE Navigate(selectedBucket, BreadcrumbPrefix(i))

\* lines 545-547: a row's checkbox
ToggleItem(i) ==
    /\ TableShown
    /\ i \in 1..Len(filteredObjects)
    /\ LET key == filteredObjects[i].Key
       IN selectedItems' =
              IF Contains(selectedItems, key)
              THEN SelectSeq(selectedItems, LAMBDA k : k # key)
              ELSE Append(selectedItems, key)
    /\ UNCHANGED <<s3Client, buckets, selectedBucket, objects, prefix, isLoadingBuckets,
                   isLoadingObjects, isDeleteModalOpen, searchQuery, savedConnections,
                   alertData, envVars>>
    /\ UNCHANGED upVars
    /\ UNCHANGED managerConnections

\* lines 530-533: the header checkbox
ToggleAll ==
    /\ TableShown
    /\ selectedItems' =
           IF Len(selectedItems) = Len(filteredObjects) THEN <<>>
           ELSE ObjectKeys(filteredObjects)
    /\ UNCHANGED <<s3Client, buckets, selectedBucket, objects, prefix, isLoadingBuckets,
                   isLoadingObjects, isDeleteModalOpen, searchQuery, savedConnections,
                   alertData, envVars>>
    /\ UNCHANGED upVars
    /\ UNCHANGED managerConnections

\* line 502: the search box, rendered while a bucket is selected (line 499)
SetSearchQuery(q) ==
    /\ PageUsable
    /\ selectedBucket # NULL
    /\ searchQuery' = q
    /\ UNCHANGED <<s3Client, buckets, selectedBucket, objects, prefix, isLoadingBuckets,
                   isLoadingObjects, selectedItems, isDeleteModalOpen, savedConnections,
                   alertData, envVars>>
    /\ UNCHANGED upVars
    /\ UNCHANGED managerConnections

\* line 506: the Delete (n) button, rendered while something is selected
OpenDeleteModal ==
    /\ PageUsable
    /\ Len(selectedItems) > 0
    /\ isDeleteModalOpen' = TRUE
    /\ UNCHANGED <<s3Client, buckets, selectedBucket, objects, prefix, isLoadingBuckets,
                   isLoadingObjects, selectedItems, searchQuery, savedConnections,
                   alertData, envVars>>
    /\ UNCHANGED upVars
    /\ UNCHANGED managerConnections

\* lines 572 and 579: the modal's close button and Cancel
CloseDeleteModal ==
    /\ s3Client # NULL
    /\ isDeleteModalOpen
    /\ isDeleteModalOpen' = FALSE
    /\ UNCHANGED <<s3Client, buckets, selectedBucket, objects, prefix, isLoadingBuckets,
                   isLoadingObjects, selectedItems, searchQuery, savedConnections,
                   alertData, envVars>>
    /\ UNCHANGED upVars
    /\ UNCHANGED managerConnections

\* ------------------------------------------------- handleDeleteSelected

\* The invocation of handleDeleteSelected: where it stands (pc) and its
\* locals.  client, bucket, prefix and items are the s3Client, selectedBucket,
\* prefix and selectedItems of the render whose handler was clicked.
\*   pc = "idle"      never invoked
\*        "page"      awaiting a page of getAllKeysInPrefix(items[idx]), line 378
\*        "deleting"  awaiting the DeleteObjects call, line 401
\*        "returned"  returned at line 396, the key set being empty
\*        "rejected"  ended by an exception thrown at line 378
\*        "done"      ran to the end of the finally block, line 408
\* ret holds the value of the last completed getAllKeysInPrefix call with its
\* argument.  The locals die with the invocation: an ended invocation keeps
\* its pc only (and, returned at line 396, the bucket and ret it returned with).
DelIdle ==
    [pc |-> "idle", client |-> NULL, bucket |-> NULL, prefix |-> <<>>, items |-> <<>>,
     idx |-> 1, keys |-> <<>>, token |-> NoToken, all |-> <<>>, ret |-> <<>>]

Ended(how) == [DelIdle EXCEPT !.pc = how]

DelRunning == del.pc \in {"page", "deleting"}

\* line 386
IsFolderKey(key) == EndsWith(key, "/")

\* lines 385-391: the loop from item idx on, up to the next folder (whose
\* resolution awaits) or the end of the selection
RECURSIVE RunLoop(_)
RunLoop(d) ==
    IF d.idx > Len(d.items) THEN d
    ELSE IF IsFolderKey(d.items[d.idx]) THEN d
         ELSE RunLoop([d EXCEPT !.all = Append(@, d.items[d.idx]), !.idx = @ + 1])

ResolvedKeys_NoDedupe(all) == all

\* line 393
ResolvedKeys(all) == Dedupe(all)

NothingToDelete_Never(all) == FALSE

\* line 394
NothingToDelete(all) == Len(all) = 0

\* lines 385-401: run the loop; at a folder, call getAllKeysInPrefix (lines
\* 374-378: empty keys, no token, first page requested); at the end, dedupe and
\* either return (lines 394-397) or send the delete request (lines 400-401)
Proceed(d) ==
    LET r == RunLoop(d)
    IN IF r.idx <= Len(r.items)
       THEN [r EXCEPT !.pc = "page", !.keys = <<>>, !.token = NoToken]
       ELSE LET all == ResolvedKeys(r.all)
            IN IF NothingToDelete(all)
               THEN [Ended("returned") EXCEPT !.bucket = r.bucket, !.ret = r.ret]
               ELSE [r EXCEPT !.all = all, !.pc = "deleting"]

\* lines 369-371: the modal's Delete button.  One invocation is followed at a
\* time: the button is not pressed again while an invocation awaits the store.
handleDeleteSelected ==
    /\ s3Client # NULL
    /\ isDeleteModalOpen
    /\ ~DelRunning
    /\ IF selectedBucket = NULL \/ Len(selectedItems) = 0
       THEN UNCHANGED <<del, isDeleteModalOpen>>
       ELSE /\ del' = Proceed([DelIdle EXCEPT !.client = s3Client,
                                              !.bucket = selectedBucket,
                                              !.prefix = prefix,
                                              !.items = selectedItems])
            /\ isDeleteModalOpen' = (del'.pc # "returned" /\ isDeleteModalOpen)
    /\ UNCHANGED <<s3Client, buckets, selectedBucket, objects, prefix, isLoadingBuckets,
                   isLoadingObjects, selectedItems, searchQuery, savedConnections,
                   alertData, localStorage, store, connReqs, bucketReqs, listReqs,
                   listedContext>>
    /\ UNCHANGED upVars
    /\ UNCHANGED managerConnections

\* ListObjectsV2 {Bucket, Prefix, ContinuationToken}: a page of n keys from
\* the position the token names, and the token of the next page if keys remain
PageStart(token) == IF token = NoToken THEN 0 ELSE token

PageOf(S, p, token, n) ==
    LET L == KeysUnder(S, p)
        start == PageStart(token)
    IN [Contents |-> SubSeq(L, start + 1, start + n),
        NextContinuationToken |-> IF start + n < Len(L) THEN start + n ELSE NoToken]

\* the page sizes the store may choose: any number of the remaining keys, 0
\* only if none remains
PageSizes(S, p, token) ==
    LET remaining == Len(KeysUnder(S, p)) - PageStart(token)
    IN IF remaining <= 0 THEN {0} ELSE 1..remaining

\* line 379: an empty page has no Contents
KeysAfterPage(keys, resp) ==
    IF resp.Contents # <<>> THEN keys \o resp.Contents ELSE keys

MorePages_Always(resp) == TRUE

MorePages_FirstPageOnly(resp) == FALSE

\* line 381
MorePages(resp) == resp.NextContinuationToken # NoToken

\* lines 378-382 and 387: a page of the folder items[idx] arrives
ListPageOk(n) ==
    /\ del.pc = "page"
    /\ n \in PageSizes(store[del.bucket], del.items[del.idx], del.token)
    /\ LET resp == PageOf(store[del.bucket], del.items[del.idx], del.token, n)
           keys == KeysAfterPage(del.keys, resp)
       IN del' = IF MorePages(resp)
                 THEN [del EXCEPT !.keys = keys, !.token = resp.NextContinuationToken]
                 ELSE Proceed([del EXCEPT !.keys = keys,
                                          !.token = resp.NextContinuationToken,
                                          !.ret = <<[prefix |-> del.items[del.idx],
                                                     keys |-> keys]>>,
                                          !.all = @ \o keys,
                                          !.idx = @ + 1])
    /\ isDeleteModalOpen' = (del'.pc # "returned" /\ isDeleteModalOpen)
    /\ UNCHANGED <<s3Client, buckets, selectedBucket, objects, prefix, isLoadingBuckets,
                   isLoadingObjects, selectedItems, searchQuery, savedConnections,
                   alertData, localStorage, store, connReqs, bucketReqs, listReqs,
                   listedContext>>
    /\ UNCHANGED upVars
    /\ UNCHANGED managerConnections

\* line 378 throws: no handler encloses lines 385-391, so the promise of
\* handleDeleteSelected is rejected and nothing else runs
ListPageFail ==
    /\ del.pc = "page"
    /\ del' = Ended("rejected")
    /\ UNCHANGED <<appVars, localStorage, store, connReqs, bucketReqs, listReqs,
                   listedContext>>
    /\ UNCHANGED upVars
    /\ UNCHANGED managerConnections

\* the store's answer to DeleteObjects: every key but those of errs is gone
StoreAfterDelete(S, all, errs) == S \ (ToSet(all) \ errs)

\* line 402
DeletedCount(all) == Len(all)

\* lines 401-402 and 405-408: the delete request succeeds; errs are the keys
\* its response lists under Errors: keys the store holds and did not remove
DeleteOk(errs) ==
    /\ del.pc = "deleting"
    /\ Len(del.all) <= BatchLimit
    /\ errs \in SUBSET (ToSet(del.all) \cap store[del.bucket])
    /\ store' = [store EXCEPT ![del.bucket] = StoreAfterDelete(@, del.all, errs)]
    /\ alertData' = Alert("success", "deleted", DeletedCount(del.all), NULL)
    /\ del' = Ended("done")
    /\ isDeleteModalOpen' = FALSE
    /\ FetchObjects(del.client, del.bucket, del.prefix)
    /\ UNCHANGED <<s3Client, buckets, selectedBucket, objects, prefix, isLoadingBuckets,
                   savedConnections, localStorage, connReqs, bucketReqs, listedContext>>
    /\ UNCHANGED upVars
    /\ UNCHANGED managerConnections

\* lines 403-408: the delete request fails (the store rejects a request of
\* more than BatchLimit keys; any request may fail in transport)
DeleteFail ==
    /\ del.pc = "deleting"
    /\ alertData' = Alert("error", "Failed to delete items", 0, NULL)
    /\ del' = Ended("done")
    /\ isDeleteModalOpen' = FALSE
    /\ FetchObjects(del.client, del.bucket, del.prefix)
    /\ UNCHANGED <<s3Client, buckets, selectedBucket, objects, prefix, isLoadingBuckets,
                   savedConnections, localStorage, store, connReqs, bucketReqs,
                   listedContext>>
    /\ UNCHANGED upVars
    /\ UNCHANGED managerConnections

\* ------------------------------------------------------ handleFileUpload

\* the names of the local files the user may pick
FileNames == {<<"1">>, <<"2">>}

\* the local files: their names and sizes.  File 2 is empty.
LocalFiles ==
    {[name |-> <<"1">>, size |-> MaxBytes], [name |-> <<"2">>, size |-> 0]}

\* what one change event of the file input (line 515) may carry: files of
\* different names, possibly none
FileLists ==
    {fl \in UNION {[1..m -> LocalFiles] : m \in 0..MaxFiles} :
        \A i, j \in 1..Len(fl) : i # j => fl[i].name # fl[j].name}

\* the name as the one string a message holds
RECURSIVE Text(_)
Text(name) == IF name = <<>> THEN "" ELSE Head(name) \o Text(Tail(name))

\* line 342: `${file.name}-${Date.now()}`
UploadId(name, t) == [name |-> name, at |-> t]

\* line 343
TargetKey(currentPrefix, name) == currentPrefix \o name

\* line 345: the task as it enters the tracked set
NewTask(uploadId, name) == [id |-> uploadId, name |-> name, progress |-> 0]

Percent_Unscaled(loaded, total) == loaded * 100

\* line 354: progress.total ? Math.round((progress.loaded / progress.total) * 100) : 0
\* (Math.round rounds a half up)
Percent(loaded, total) ==
    IF total # 0 THEN (200 * loaded + total) \div (2 * total) ELSE 0

\* line 355: prev.map(f => f.id === uploadId ? { ...f, progress: percent } : f)
WithProgress(tracked, uploadId, percent) ==
    [i \in 1..Len(tracked) |->
        IF tracked[i].id = uploadId THEN [tracked[i] EXCEPT !.progress = percent]
        ELSE tracked[i]]

\* line 364: prev.filter(f => f.id !== uploadId)
WithoutTask(tracked, uploadId) == SelectSeq(tracked, LAMBDA f : f.id # uploadId)

\* An invocation of handleFileUpload awaiting the transfer of files[idx] (line
\* 358).  client, bucket and prefix are the s3Client, selectedBucket and prefix
\* of the render whose handler ran; id is the uploadId of the file in
\* transfer, loaded the bytes its last progress event reported and percent
\* the percentage that event's callback stored (0 before the first event).
Invocation(client, bucket, currentPrefix, files) ==
    [client |-> client, bucket |-> bucket, prefix |-> currentPrefix, files |-> files,
     idx |-> 1, id |-> UploadId(files[1].name, now), loaded |-> 0, percent |-> 0]

CurrentFile(u) == u.files[u.idx]

MoreFiles_Never(u) == FALSE

\* line 341: the loop has another file
MoreFiles(u) == u.idx < Len(u.files)

\* lines 341-345: the loop moves on to the next file
NextFile(u) ==
    [u EXCEPT !.idx = @ + 1, !.id = UploadId(u.files[u.idx + 1].name, now),
              !.loaded = 0, !.percent = 0]

\* lines 338-358: the file input changes.  The Upload button is rendered while
\* a bucket is selected (line 511).  The first file is tracked and its
\* transfer started; the invocation then awaits it.
handleFileUpload(files) ==
    /\ PageUsable
    /\ selectedBucket # NULL
    /\ BagCardinality(uploads) < MaxUploads
    /\ IF Len(files) = 0
       THEN UNCHANGED <<uploadingFiles, uploads>>
       ELSE LET u == Invocation(s3Client, selectedBucket, prefix, files)
            IN /\ uploadingFiles' = Append(uploadingFiles, NewTask(u.id, files[1].name))
               /\ uploads' = uploads (+) SetToBag({u})
    /\ UNCHANGED <<appVars, envVars, now>>
    /\ UNCHANGED managerConnections

\* lines 353-356: the transfer of u reports that l bytes of the file are sent.
\* The total is the size of the file; it is falsy for an empty file.
UploadProgress(u, l) ==
    /\ BagIn(u, uploads)
    /\ l \in u.loaded..CurrentFile(u).size
    /\ uploadingFiles' =
           WithProgress(uploadingFiles, u.id, Percent(l, CurrentFile(u).size))
    /\ uploads' = (uploads (-) SetToBag({u}))
                   (+) SetToBag({[u EXCEPT !.loaded = l,
                                           !.percent = Percent(l, CurrentFile(u).size)]})
    /\ UNCHANGED <<appVars, envVars, now>>
    /\ UNCHANGED managerConnections

\* lines 364 and 341-345: the finally block removes the task of the settled
\* transfer; the loop then tracks and starts the next file, if any
AfterSettlement(u) ==
    IF MoreFiles(u)
    THEN /\ uploadingFiles' =
                Append(WithoutTask(uploadingFiles, u.id),
                       NewTask(NextFile(u).id, CurrentFile(NextFile(u)).name))
         /\ uploads' = (uploads (-) SetToBag({u})) (+) SetToBag({NextFile(u)})
    ELSE /\ uploadingFiles' = WithoutTask(uploadingFiles, u.id)
         /\ uploads' = uploads (-) SetToBag({u})

\* lines 358-360 and 364: the transfer succeeds, every byte being sent
UploadOk(u) ==
    /\ BagIn(u, uploads)
    /\ u.loaded = CurrentFile(u).size
    /\ store' = [store EXCEPT ![u.bucket] = @ \cup {TargetKey(u.prefix, CurrentFile(u).name)}]
    /\ alertData' = Alert("success", "uploaded", 0, Text(CurrentFile(u).name))
    /\ FetchObjects(u.client, u.bucket, u.prefix)
    /\ AfterSettlement(u)
    /\ UNCHANGED <<s3Client, buckets, selectedBucket, objects, prefix, isLoadingBuckets,
                   isDeleteModalOpen, savedConnections, localStorage, connReqs,
                   bucketReqs, del, listedContext, now>>
    /\ UNCHANGED managerConnections

\* lines 361-364: the transfer fails
UploadFail(u) ==
    /\ BagIn(u, uploads)
    /\ alertData' = Alert("error", "Failed to upload", 0, Text(CurrentFile(u).name))
    /\ AfterSettlement(u)
    /\ UNCHANGED <<s3Client, buckets, selectedBucket, objects, prefix, isLoadingBuckets,
                   isLoadingObjects, selectedItems, isDeleteModalOpen, searchQuery,
                   savedConnections, envVars, now>>
    /\ UNCHANGED managerConnections

\* time passes: Date.now() returns the same value until the clock advances
Tick ==
    /\ now < MaxClock
    /\ now' = now + 1
    /\ UNCHANGED <<appVars, envVars, uploadingFiles, uploads>>
    /\ UNCHANGED managerConnections

\* ------------------------------------------------------- specifications

\* what the store holds when the page is opened
InitialStore ==
    [b \in Buckets |-> IF b = "b1" THEN {<<"a", "/", "1">>} ELSE {}]

Init ==
    /\ s3Client = NULL
    /\ buckets = <<>>
    /\ selectedBucket = NULL
    /\ objects = <<>>
    /\ prefix = <<>>
    /\ isLoadingBuckets = FALSE
    /\ isLoadingObjects = FALSE
    /\ selectedItems = <<>>
    /\ isDeleteModalOpen = FALSE
    /\ searchQuery = <<>>
    /\ savedConnections = <<>>
    /\ alertData = NoAlert
    /\ localStorage = <<>>
    /\ store = InitialStore
    /\ connReqs = EmptyBag
    /\ bucketReqs = EmptyBag
    /\ listReqs = EmptyBag
    /\ del = DelIdle
    /\ listedContext = NoContext
    /\ uploadingFiles = <<>>
    /\ uploads = EmptyBag
    /\ now = 0
    /\ managerConnections = <<>>

Next ==
    \/ \E c \in Creds : HandleConnect(c, NoSave)
    \/ \E r \in BagToSet(connReqs) : ConnectOk(r, 0)
    \/ \E r \in BagToSet(connReqs) : ConnectFail(r)
    \/ handleDisconnect
    \/ \E r \in BagToSet(bucketReqs) : FetchBucketsOk(r)
    \/ \E r \in BagToSet(bucketReqs) : FetchBucketsFail(r)
    \/ DismissAlert
    \/ \E i \in 1..Len(BucketNames) : SelectBucket(i)
    \/ \E i \in 1..Len(filteredObjects) : EnterFolder(i)
    \/ \E i \in 0..(Len(breadcrumbSegments) + 1) : ClickBreadcrumb(i)
    \/ \E i \in 1..Len(filteredObjects) : ToggleItem(i)
    \/ ToggleAll
    \/ \E q \in Queries : SetSearchQuery(q)
    \/ OpenDeleteModal
    \/ CloseDeleteModal
    \/ \E r \in BagToSet(listReqs) : FetchObjectsOk(r)
    \/ \E r \in BagToSet(listReqs) : FetchObjectsFail(r)
    \/ handleDeleteSelected
    \/ \E n \in 0..Len(KeyOrder) : ListPageOk(n)
    \/ ListPageFail
    \/ \E errs \in SUBSET Keys : DeleteOk(errs)
    \/ DeleteFail

Spec == Init /\ [][Next]_vars

\* The delete operation on its own: Init draws what the store holds and what
\* is selected when the user opens the confirmation dialog in bucket b1.  A
\* selection may hold keys of several listings (a listing response that
\* arrives after a later one leaves it so) and folders the store no longer
\* holds anything under.

\* the prefixes a listing may be asked for: the root and every folder of Keys
FolderPrefixes ==
    {<<>>} \cup UNION {{SubSeq(k, 1, i) : i \in {j \in 1..Len(k) : k[j] = "/"}} : k \in Keys}

\* the keys some listing of a bucket holding Keys shows
Selectable ==
    UNION {ToSet(ObjectKeys(ListingOf(ListDelimited(Keys, p), p))) : p \in FolderPrefixes}

Selections ==
    {sel \in UNION {[1..m -> Selectable] : m \in 1..MaxSelected} :
        \A i, j \in 1..Len(sel) : i # j => sel[i] # sel[j]}

InitDelete ==
    /\ s3Client \in Creds
    /\ buckets = BucketNames
    /\ selectedBucket = "b1"
    /\ prefix = <<>>
    /\ isLoadingBuckets = FALSE
    /\ isLoadingObjects = FALSE
    /\ store \in {[b \in Buckets |-> IF b = "b1" THEN S ELSE {}] : S \in SUBSET Keys}
    /\ objects = ListingOf(ListDelimited(store["b1"], <<>>), <<>>)
    /\ listedContext = [bucket |-> "b1", prefix |-> <<>>]
    /\ selectedItems \in Selections
    /\ isDeleteModalOpen = TRUE
    /\ searchQuery = <<>>
    /\ savedConnections = <<>>
    /\ alertData = NoAlert
    /\ localStorage = <<>>
    /\ connReqs = EmptyBag
    /\ bucketReqs = EmptyBag
    /\ listReqs = EmptyBag
    /\ del = DelIdle
    /\ uploadingFiles = <<>>
    /\ uploads = EmptyBag
    /\ now = 0
    /\ managerConnections = <<>>

NextDelete ==
    \/ OpenDeleteModal
    \/ CloseDeleteModal
    \/ handleDeleteSelected
    \/ \E n \in 0..Len(KeyOrder) : ListPageOk(n)
    \/ ListPageFail
    \/ \E errs \in SUBSET Keys : DeleteOk(errs)
    \/ DeleteFail
    \/ \E r \in BagToSet(listReqs) : FetchObjectsOk(r)
    \/ \E r \in BagToSet(listReqs) : FetchObjectsFail(r)

SpecDelete == InitDelete /\ [][NextDelete]_vars

\* The upload operation on its own: Init is the page with bucket b1 open and
\* listed.  In SpecUpload one upload action runs at a time, each of its files
\* in turn; in SpecUploadRace upload actions overlap.
InitUpload ==
    /\ s3Client \in Creds
    /\ buckets = BucketNames
    /\ selectedBucket = "b1"
    /\ prefix = <<>>
    /\ isLoadingBuckets = FALSE
    /\ isLoadingObjects = FALSE
    /\ store = InitialStore
    /\ objects = ListingOf(ListDelimited(store["b1"], <<>>), <<>>)
    /\ listedContext = [bucket |-> "b1", prefix |-> <<>>]
    /\ selectedItems = <<>>
    /\ isDeleteModalOpen = FALSE
    /\ searchQuery = <<>>
    /\ savedConnections = <<>>
    /\ alertData = NoAlert
    /\ localStorage = <<>>
    /\ connReqs = EmptyBag
    /\ bucketReqs = EmptyBag
    /\ listReqs = EmptyBag
    /\ del = DelIdle
    /\ uploadingFiles = <<>>
    /\ uploads = EmptyBag
    /\ now = 0
    /\ managerConnections = <<>>

NextUpload ==
    \/ uploads = EmptyBag /\ \E files \in FileLists : handleFileUpload(files)
    \/ \E u \in BagToSet(uploads) : \E l \in 0..MaxBytes : UploadProgress(u, l)
    \/ \E u \in BagToSet(uploads) : UploadOk(u)
    \/ \E u \in BagToSet(uploads) : UploadFail(u)
    \/ Tick
    \/ \E r \in BagToSet(listReqs) : FetchObjectsOk(r)
    \/ \E r \in BagToSet(listReqs) : FetchObjectsFail(r)

SpecUpload == InitUpload /\ [][NextUpload]_vars

NextUploadRace ==
    \/ \E files \in FileLists : handleFileUpload(files)
    \/ \E u \in BagToSet(uploads) : \E l \in 0..MaxBytes : UploadProgress(u, l)
    \/ \E u \in BagToSet(uploads) : UploadOk(u)
    \/ \E u \in BagToSet(uploads) : UploadFail(u)
    \/ Tick
    \/ \E r \in BagToSet(listReqs) : FetchObjectsOk(r)
    \/ \E r \in BagToSet(listReqs) : FetchObjectsFail(r)

SpecUploadRace == InitUpload /\ [][NextUploadRace]_vars

\* Uploads of one file, one at a time, with what the user may do meanwhile:
\* open another bucket, tick rows, disconnect.
OneFileLists == {fl \in FileLists : Len(fl) = 1}

NextUploadAround ==
    \/ uploads = EmptyBag /\ \E files \in OneFileLists : handleFileUpload(files)
    \/ \E u \in BagToSet(uploads) : \E l \in 0..MaxBytes : UploadProgress(u, l)
    \/ \E u \in BagToSet(uploads) : UploadOk(u)
    \/ \E u \in BagToSet(uploads) : UploadFail(u)
    \/ \E i \in 1..Len(BucketNames) : SelectBucket(i)
    \/ \E i \in 1..Len(filteredObjects) : ToggleItem(i)
    \/ handleDisconnect
    \/ \E r \in BagToSet(listReqs) : FetchObjectsOk(r)
    \/ \E r \in BagToSet(listReqs) : FetchObjectsFail(r)

SpecUploadAround == InitUpload /\ [][NextUploadAround]_vars

\* Browsing on its own: Init draws what bucket b1 holds; the user opens
\* buckets and folders and follows the breadcrumbs while the listings arrive.
InitBrowse ==
    /\ s3Client \in Creds
    /\ buckets = BucketNames
    /\ selectedBucket = "b1"
    /\ prefix = <<>>
    /\ isLoadingBuckets = FALSE
    /\ isLoadingObjects = FALSE
    /\ store \in {[b \in Buckets |-> IF b = "b1" THEN S ELSE {}] : S \in SUBSET Keys}
    /\ objects = ListingOf(ListDelimited(store["b1"], <<>>), <<>>)
    /\ listedContext = [bucket |-> "b1", prefix |-> <<>>]
    /\ selectedItems = <<>>
    /\ isDeleteModalOpen = FALSE
    /\ searchQuery = <<>>
    /\ savedConnections = <<>>
    /\ alertData = NoAlert
    /\ localStorage = <<>>
    /\ connReqs = EmptyBag
    /\ bucketReqs = EmptyBag
    /\ listReqs = EmptyBag
    /\ del = DelIdle
    /\ uploadingFiles = <<>>
    /\ uploads = EmptyBag
    /\ now = 0
    /\ managerConnections = <<>>

NextBrowse ==
    \/ \E i \in 1..Len(BucketNames) : SelectBucket(i)
    \/ \E i \in 1..Len(filteredObjects) : EnterFolder(i)
    \/ \E i \in 0..(Len(breadcrumbSegments) + 1) : ClickBreadcrumb(i)
    \/ \E r \in BagToSet(listReqs) : FetchObjectsOk(r)
    \/ \E r \in BagToSet(listReqs) : FetchObjectsFail(r)

SpecBrowse == InitBrowse /\ [][NextBrowse]_vars

\* The filter view on its own: Init draws what bucket b1 holds; the user
\* types into the search box and ticks rows of the filtered table.
NextFilter ==
    \/ \E q \in Queries : SetSearchQuery(q)
    \/ \E i \in 1..Len(filteredObjects) : ToggleItem(i)
    \/ ToggleAll

SpecFilter == InitBrowse /\ [][NextFilter]_vars

\* The session on its own: the user connects, with or without saving the
\* connection under a name, disconnects and deletes saved connections.

\* the names a connection may be saved under
SaveNames == {"x", "y"}

\* line 160: what handleSubmit may pass as saveConfig
SaveConfigs ==
    {NoSave} \cup {[name |-> n, details |-> c] : n \in SaveNames, c \in Creds}

NextSession ==
    \/ \E c \in Creds : \E sc \in SaveConfigs : HandleConnect(c, sc)
    \/ \E r \in BagToSet(connReqs) : ConnectOk(r, now)
    \/ \E r \in BagToSet(connReqs) : ConnectFail(r)
    \/ handleDisconnect
    \/ \E id \in 0..MaxClock : handleDeleteConnection(id)
    \/ \E r \in BagToSet(bucketReqs) : FetchBucketsOk(r)
    \/ \E r \in BagToSet(bucketReqs) : FetchBucketsFail(r)
    \/ Tick

SpecSession == Init /\ [][NextSession]_vars

\* ----------------------------------------------------------------- claims

NoDuplicates(arr) == \A i, j \in 1..Len(arr) : i # j => arr[i] # arr[j]

CurrentRequest == [client |-> s3Client, bucket |-> selectedBucket, prefix |-> prefix]

\* C1: a step that changes the bucket or the prefix leaves the SelectionSet
\* and the filter query empty.
C1_NavigationClearsSelection ==
    [][(selectedBucket' # selectedBucket \/ prefix' # prefix)
           => (selectedItems' = <<>> /\ searchQuery' = <<>>)]_vars

\* C2: every selected key is the key of an entry of the in-memory listing.
C2_SelectionWithinListing ==
    \A i \in 1..Len(selectedItems) : Contains(ObjectKeys(objects), selectedItems[i])

\* C3: the value getAllKeysInPrefix returns for a folder is exactly the keys
\* the bucket holds under that prefix, each once, however the store pages them
\* (the store does not change while the invocation resolves or has returned
\* with nothing to delete).
C3_ResolutionExact ==
    (del.pc \in {"page", "deleting", "returned"} /\ del.ret # <<>>)
        => /\ ToSet(del.ret[1].keys)
                  = {k \in store[del.bucket] : StartsWith(k, del.ret[1].prefix)}
           /\ NoDuplicates(del.ret[1].keys)

\* a folder of three or more keys has been resolved
C3_Witness ==
    /\ del.pc \in {"page", "deleting"}
    /\ del.ret # <<>>
    /\ Len(del.ret[1].keys) >= 3

\* the keys a selection resolves to: its file keys and all that the bucket
\* holds under its folders
ExpectedKeys(S, items) ==
    {items[i] : i \in {j \in 1..Len(items) : ~EndsWith(items[j], "/")}}
        \cup {k \in S : \E i \in 1..Len(items) :
                            EndsWith(items[i], "/") /\ StartsWith(k, items[i])}

\* C4: the keys of the delete request are the selected file keys and the
\* contents of the selected folders, each key once.
C4_UnionWithoutDuplicates ==
    del.pc = "deleting"
        => /\ ToSet(del.all) = ExpectedKeys(store[del.bucket], del.items)
           /\ NoDuplicates(del.all)

\* a delete request is in flight for a selection that reaches a key of the
\* bucket through two of its members
C4_Witness ==
    /\ del.pc = "deleting"
    /\ \E i, j \in 1..Len(del.items) :
           /\ i # j
           /\ EndsWith(del.items[i], "/")
           /\ StartsWith(del.items[j], del.items[i])
           /\ \E k \in store[del.bucket] : StartsWith(k, del.items[j])

\* C5: no delete request carries more keys than the store accepts in one
\* batch.
C5_ChunksWithinBatchLimit ==
    del.pc = "deleting" => Len(del.all) <= BatchLimit

\* C6: the number of keys a successful delete reports as deleted does not
\* count the keys its response lists as not deleted.
C6_ReportsConfirmedCount ==
    [][\A errs \in SUBSET Keys :
           DeleteOk(errs) => alertData'.n = Len(del.all) - Cardinality(errs)]_vars

\* C7: no delete request is sent for an empty key set, and an invocation that
\* finds nothing to delete ends with the store as it was, the dialog closed
\* and no notification.
C7_NoRequestForEmptySet ==
    del.pc = "deleting" => Len(del.all) > 0

C7_EndsQuietly ==
    (del.pc # "returned" /\ del'.pc = "returned")
        => (store' = store /\ alertData' = alertData /\ ~isDeleteModalOpen')

C7_EmptyResolvedSet == []C7_NoRequestForEmptySet /\ [][C7_EndsQuietly]_vars

\* an invocation has returned with nothing to delete
C7_Witness == del.pc = "returned" /\ del.ret # <<>> /\ del.ret[1].keys = <<>>

\* C8: when a page listing of the resolution fails, an error notification is
\* emitted, no delete request is sent and the dialog is closed.
C8_ListingFailureIsHandled ==
    [][(del.pc = "page" /\ del'.pc = "rejected")
           => /\ alertData'.type = "error"
              /\ alertData' # alertData
              /\ ~isDeleteModalOpen']_vars

\* C9: when a listing request for the current context fails while the
\* listing in memory is that of another context, the listing becomes empty.
C9_FailedListingFallsBackToEmpty ==
    [][\A r \in BagToSet(listReqs) :
           (/\ FetchObjectsFail(r)
            /\ r.bucket = selectedBucket
            /\ r.prefix = prefix
            /\ listedContext # [bucket |-> r.bucket, prefix |-> r.prefix])
               => objects' = <<>>]_vars

\* C10: while a bucket is open, the step that ends a delete whose request was
\* sent issues a listing request for the current bucket and prefix, and leaves
\* the listing alone.
C10_RefreshesCurrentContext ==
    [][(del.pc = "deleting" /\ del'.pc = "done" /\ s3Client # NULL /\ selectedBucket # NULL)
           => /\ CopiesIn(CurrentRequest, listReqs')
                     = CopiesIn(CurrentRequest, listReqs) + 1
              /\ objects' = objects]_vars

\* C11: when one upload action is given several files, every file's transfer
\* starts at once: the step of the action tracks one new task per file, the
\* transfers of all of them being in flight at the same time.
C11_EveryFileStartsImmediately ==
    [][\A files \in FileLists :
          handleFileUpload(files) =>
              Len(uploadingFiles') = Len(uploadingFiles) + Len(files)]_vars

\* C12: when the transfer of a file A of an upload action fails and the
\* action has a further file B, B is transferred all the same, to the same
\* target, starting from progress 0 as it would after a success of A, and the
\* store is left as it was; what happens to B afterwards is decided by the
\* events of B's own transfer.
C12_FailureLeavesSiblingAlone ==
    [][\A u \in BagToSet(uploads) :
          (UploadFail(u) /\ u.idx < Len(u.files)) =>
              /\ \E v \in BagToSet(uploads') :
                    /\ v.files = u.files /\ v.idx = u.idx + 1 /\ v.loaded = 0
                    /\ v.client = u.client /\ v.bucket = u.bucket /\ v.prefix = u.prefix
                    /\ Len(uploadingFiles') > 0
                    /\ uploadingFiles'[Len(uploadingFiles')]
                           = NewTask(v.id, u.files[u.idx + 1].name)
              /\ BagCardinality(uploads') = BagCardinality(uploads)
              /\ store' = store]_vars

\* the first file of an action has failed and the second is in transfer
C12_Witness ==
    \E u \in BagToSet(uploads) :
        /\ u.idx = 2
        /\ alertData = Alert("error", "Failed to upload", 0, Text(u.files[1].name))
        /\ \E i \in 1..Len(uploadingFiles) : uploadingFiles[i].id = u.id

\* C13: an upload task is tracked from the moment its upload begins until
\* its transfer settles and is removed on settlement: the tracked tasks are
\* exactly the transfers in flight, one task for each.
C13_TrackedUntilSettled ==
    /\ Len(uploadingFiles) = BagCardinality(uploads)
    /\ \A u \in BagToSet(uploads) :
          \E i \in 1..Len(uploadingFiles) : uploadingFiles[i].id = u.id

\* C14: two tasks tracked at the same time never share an id, tasks for
\* files of the same name started by separate upload actions included.
C14_TrackedIdsAreUnique ==
    \A i, j \in 1..Len(uploadingFiles) :
        i # j => uploadingFiles[i].id # uploadingFiles[j].id

C16_RefreshesContextAtSettlement ==
    [][\A u \in BagToSet(uploads) :
          /\ (UploadOk(u) /\ s3Client # NULL /\ selectedBucket # NULL) =>
                 CopiesIn(CurrentRequest, listReqs')
                     = CopiesIn(CurrentRequest, listReqs) + 1
          /\ UploadFail(u) => listReqs' = listReqs]_vars

\* C17: the completion of an upload or of a delete, with the refresh it
\* triggers, leaves the SelectionSet and the filter query as they were.
C17_CompletionKeepsSelection ==
    [][((\E u \in BagToSet(uploads) : UploadOk(u) \/ UploadFail(u))
           \/ (\E errs \in SUBSET Keys : DeleteOk(errs)) \/ DeleteFail) =>
          (selectedItems' = selectedItems /\ searchQuery' = searchQuery)]_vars

\* C18: the result of an operation that completes after a disconnect is
\* discarded: while there is no session, no step writes to the bucket list,
\* to the listing or to the selection, so that a new session finds nothing
\* of the previous one.
C18_LateResultsAreDiscarded ==
    [][s3Client = NULL =>
          (buckets' = buckets /\ objects' = objects /\ selectedItems' = selectedItems)]_vars

\* C19: the step that disconnects leaves no session handle, an empty bucket
\* list and listing, no bucket, the empty prefix, and an empty SelectionSet
\* and filter query; it sends no request to the store and leaves the store,
\* the tracked upload tasks, the running transfers and the saved connections
\* as they were.
C19_DisconnectIsLocal ==
    [][(s3Client # NULL /\ s3Client' = NULL) =>
          /\ buckets' = <<>> /\ objects' = <<>>
          /\ selectedBucket' = NULL /\ prefix' = <<>>
          /\ selectedItems' = <<>> /\ searchQuery' = <<>>
          /\ connReqs' = connReqs /\ bucketReqs' = bucketReqs /\ listReqs' = listReqs
          /\ del' = del /\ uploads' = uploads /\ store' = store
          /\ uploadingFiles' = uploadingFiles
          /\ savedConnections' = savedConnections /\ localStorage' = localStorage]_vars

\* disconnected while a transfer and a listing request are in flight
C19_Witness ==
    /\ s3Client = NULL
    /\ alertData = Alert("info", "Disconnected", 0, NULL)
    /\ uploadingFiles # <<>>
    /\ listReqs # EmptyBag

\* C20: the listing produced for a prefix p holds no file entry whose key is
\* p itself, whatever the store holds under p (a folder marker object
\* included).
C20_NoFileEntryForThePrefix ==
    \A i \in 1..Len(objects) :
        ~objects[i].isFolder => objects[i].Key # listedContext.prefix

\* the listing of folder a/ of a bucket that holds the marker object a/
C20_Witness ==
    /\ listedContext = [bucket |-> "b1", prefix |-> <<"a", "/">>]
    /\ <<"a", "/">> \in store["b1"]
    /\ \E i \in 1..Len(objects) : ~objects[i].isFolder

\* C21: in every listing the key of every folder entry ends with "/" and the
\* key of no file entry does.
C21_FolderKeysEndWithSlash ==
    \A i \in 1..Len(objects) : objects[i].isFolder <=> EndsWith(objects[i].Key, "/")

\* a listing with a folder entry and a file entry, taken under a folder whose
\* marker object the store holds
C21_Witness ==
    /\ listedContext = [bucket |-> "b1", prefix |-> <<"a", "/">>]
    /\ <<"a", "/">> \in store["b1"]
    /\ \E i, j \in 1..Len(objects) : objects[i].isFolder /\ ~objects[j].isFolder

\* C22: the listing holds the folder entries before the file entries, the
\* folders in the order of the common prefixes of the store's response and
\* the files in the order of its objects.
C22_FoldersBeforeFiles ==
    LET resp == ListDelimited(store[listedContext.bucket], listedContext.prefix)
        folderKeys == ObjectKeys(SelectSeq(objects, LAMBDA e : e.isFolder))
        fileKeys == ObjectKeys(SelectSeq(objects, LAMBDA e : ~e.isFolder))
    IN listedContext.bucket # NULL =>
          /\ \A i, j \in 1..Len(objects) :
                (objects[i].isFolder /\ ~objects[j].isFolder) => i < j
          /\ folderKeys = resp.CommonPrefixes
          /\ fileKeys = SelectSeq(resp.Contents, LAMBDA k : k # listedContext.prefix)

\* a listing with a folder and several files that a response has delivered
C22_Witness ==
    /\ Len(SelectSeq(objects, LAMBDA e : e.isFolder)) >= 1
    /\ Len(SelectSeq(objects, LAMBDA e : ~e.isFolder)) >= 2
    /\ listedContext = [bucket |-> "b1", prefix |-> <<"a", "/">>]

\* the same letter in either case
SameLetter(c, d) ==
    \/ c = d
    \/ {c, d} \in {{"a", "A"}, {"b", "B"}, {"s", "S"}}

\* key contains q as a substring, letter case disregarded
ContainsIgnoringCase(key, q) ==
    \E i \in 0..(Len(key) - Len(q)) :
        \A j \in 1..Len(q) : SameLetter(key[i + j], q[j])

C23_ViewIsTheMatches ==
    /\ filteredObjects
           = SelectSeq(objects, LAMBDA e : ContainsIgnoringCase(e.Key, searchQuery))
    /\ searchQuery = <<>> => filteredObjects = objects
    /\ (\A i \in 1..Len(objects) : ~ContainsIgnoringCase(objects[i].Key, searchQuery))
           => filteredObjects = <<>>

C23_QueryLeavesListing ==
    (\E q \in Queries : SetSearchQuery(q)) =>
        (objects' = objects /\ selectedItems' = selectedItems)

\* C23: the filter view is exactly the entries of the listing whose key
\* contains the query as a case-insensitive substring, in listing order: the
\* listing itself for the empty query, empty when no key contains the query;
\* a change of the query changes neither the listing nor the SelectionSet.
C23_FilterView == []C23_ViewIsTheMatches /\ [][C23_QueryLeavesListing]_vars

\* a query in capitals that some keys of the listing contain in small letters
\* and others do not, with a row ticked
C23_Witness ==
    /\ searchQuery = <<"A">>
    /\ filteredObjects # <<>>
    /\ Len(filteredObjects) < Len(objects)
    /\ selectedItems # <<>>

\* C24: a session becomes live only in a step that consumes the response of
\* a validation call made with the same connection details; a failed
\* validation leaves the session, the saved connections (in memory and
\* persisted) and the bucket requests as they were, shows an error
\* notification, and issues no further validation call: the failed request
\* leaves the requests in flight and none is added.
C24_SessionOnlyAfterValidation ==
    (s3Client = NULL /\ s3Client' # NULL)
        => \E r \in BagToSet(connReqs) :
               /\ r.details = s3Client'
               /\ connReqs' = connReqs (-) SetToBag({r})

C24_FailureChangesNothing ==
    \A r \in BagToSet(connReqs) :
        ConnectFail(r)
            => /\ s3Client' = s3Client
               /\ savedConnections' = savedConnections
               /\ localStorage' = localStorage
               /\ managerConnections' = managerConnections
               /\ alertData'.type = "error"
               /\ BagCardinality(connReqs') = BagCardinality(connReqs) - 1
               /\ bucketReqs' = bucketReqs

C24_ConnectValidatesOnce ==
    [][/\ C24_SessionOnlyAfterValidation
       /\ C24_FailureChangesNothing
       /\ BagCardinality(connReqs') <= BagCardinality(connReqs) + 1]_vars

\* a connect that asked to save has failed, with a connection saved before
C24_Witness ==
    /\ alertData = Alert("error", "Connection failed", 0, NULL)
    /\ s3Client = NULL
    /\ connReqs = EmptyBag
    /\ localStorage # <<>>
    /\ savedConnections = localStorage

\* the part of prefix p up to and including its n-th "/"
C25_UpToSlash(p, n) ==
    SubSeq(p, 1, CHOOSE k \in 1..Len(p) :
                     p[k] = "/" /\ Cardinality({j \in 1..k : p[j] = "/"}) = n)

\* C25: a click on crumb i of [root, bucket, segments...] (counted from 0):
\* the root crumb sets the bucket to null and the prefix to the empty string;
\* the bucket crumb keeps the bucket and empties the prefix; crumb i >= 2
\* keeps the bucket and sets the prefix to its first i - 1 segments, each
\* followed by "/" (the join of crumbs 2..i with "/" plus a trailing "/").
C25_BreadcrumbClick ==
    [][\A i \in 0..(Len(prefix) + 1) :
           ClickBreadcrumb(i)
               => /\ selectedBucket' = (IF i = 0 THEN NULL ELSE selectedBucket)
                  /\ prefix' = (IF i < 2 THEN <<>> ELSE C25_UpToSlash(prefix, i - 1))
                  /\ (i >= 2 => /\ EndsWith(prefix', "/")
                                /\ SplitSegments(prefix', <<>>)
                                       = SubSeq(SplitSegments(prefix, <<>>), 1, i - 1))]_vars

\* the folder a/ was reached from a/s/, whose listing is still shown
C25_Witness ==
    /\ selectedBucket = "b1"
    /\ prefix = <<"a", "/">>
    /\ listedContext = [bucket |-> "b1", prefix |-> <<"a", "/", "s", "/">>]

\* C26: one page request of the resolver is in flight at a time (del.pc =
\* "page": the request for folder del.items[del.idx] carrying del.token).
\* The first request for a folder carries no token; when a response carries
\* a continuation token, the next request is for the same folder and carries
\* exactly that token; the first response without a token ends the folder.
C26_FirstRequestWithoutToken ==
    (del'.pc = "page" /\ (del.pc # "page" \/ del'.idx # del.idx))
        => del'.token = NoToken /\ del'.keys = <<>>

C26_NextRequestCarriesToken ==
    \A n \in 0..Len(KeyOrder) :
        ListPageOk(n)
            => LET resp == PageOf(store[del.bucket], del.items[del.idx], del.token, n)
               IN IF resp.NextContinuationToken # NoToken
                  THEN /\ del'.pc = "page"
                       /\ del'.idx = del.idx
                       /\ del'.token = resp.NextContinuationToken
                  ELSE del'.pc # "page" \/ del'.idx > del.idx

C26_PagesInContinuationOrder ==
    [][C26_FirstRequestWithoutToken /\ C26_NextRequestCarriesToken]_vars

\* the request for a second page is in flight
C26_Witness ==
    /\ del.pc = "page"
    /\ del.token # NoToken
    /\ del.keys # <<>>

\* C27: while a session is live, a bucket is open and `objects` holds the
\* listing of the current bucket and prefix, the response to a listing request made for
\* another bucket or prefix does not overwrite it.
C27_StaleResponseNeverOverwrites ==
    [][\A r \in BagToSet(listReqs) :
           (/\ FetchObjectsOk(r)
            /\ s3Client # NULL
            /\ selectedBucket # NULL
            /\ listedContext = [bucket |-> selectedBucket, prefix |-> prefix]
            /\ <<r.bucket, r.prefix>> # <<selectedBucket, prefix>>)
               => objects' = objects /\ listedContext' = listedContext]_vars

\* the names of the connections in a saved list
C28_Names(saved) == {saved[i].name : i \in 1..Len(saved)}

\* C28: a name that is not in the persisted list (never saved, or deleted)
\* enters it only in a step that saves a connection of that name: the step
\* that ends a connect whose saveConfig carries the name.
C28_DeletedStaysDeleted ==
    [][\A n \in SaveNames :
           (n \notin C28_Names(localStorage) /\ n \in C28_Names(localStorage'))
               => \E r \in BagToSet(connReqs) :
                      /\ r.saveConfig.name = n
                      /\ connReqs' = connReqs (-) SetToBag({r})]_vars

====
